---------------------------- MODULE Spec2Model ----------------------------
(***************************************************************************)
(* A model of merlindb's decoding, validation, export and browsing code:   *)
(*   parser.py   get_available_tables, get_table_data, _validate_table_data*)
(*   api.py      MerlinDB.list_tables, get_table, table_exists,            *)
(*               get_table_info, get_database_summary, export              *)
(*   utils.py    select_tables, get_exporter, export_tables                *)
(*   exporters/  the JSON, YAML and CSV exporters                          *)
(*   providers/  the raw, Dynalite and device data providers               *)
(*   browser.py  the TableBrowser application                              *)
(*   models/genisys.py   model_map and the record schemas it registers     *)
(*                                                                         *)
(* A database is the AccessParser handle: a catalog of table names and,    *)
(* per table, what parse_table does for it (return the columnar decode or  *)
(* raise).  A cell is one of the tokens                                    *)
(*   "null" (None), "i1" (the int 1), "s1" (the str "1"), "sx" (the str    *)
(*   "x")                                                                  *)
(* which is enough to tell a value that pydantic accepts unchanged from    *)
(* one it coerces and from one it rejects.                                 *)
(***************************************************************************)
EXTENDS Integers, Sequences, FiniteSets, TLC

\* Bounds of the model: the cells of one column of a decoded table, and the
\* patterns of one selection.
MaxRows == 2
MaxPatterns == 2

-----------------------------------------------------------------------------
(* Helpers on sequences *)

Range(s) == {s[i] : i \in DOMAIN s}

Min(a, b) == IF a <= b THEN a ELSE b

SeqsUpTo(S, n) == UNION {[1..k -> S] : k \in 0..n}

\* Sequences over S without repetition.
DistinctSeqs(S) == {s \in SeqsUpTo(S, Cardinality(S)) : Cardinality(Range(s)) = Len(s)}

-----------------------------------------------------------------------------
(* Names *)

\* Table names a catalog may hold, and a name no catalog holds.
TableNames == {"MSysObjects", "SensorInterval", "hero"}
NoSuchTable == "DoesNotExist"
ArgNames == TableNames \cup {NoSuchTable}

\* Column names a decoded table may have.
ColumnNames == {"SensorInterval", "Notes"}

\* The table names and the patterns that select_tables is applied to.
SelectNames == {"Config", "config", "Events", "GeniSysObjects", "GeniSysPanels"}
SelectPatterns == {"GeniSys*", "NoMatch*", "config", "CONFIG", "c*"}

\* The patterns and the format names an export is called with.
ExportPatterns == {"hero"}
FormatNames == {"json", "yaml", "csv", "JSON", "YAML", "CSV", "xml"}

\* The code points of a name: Python compares str values by code point.
Chars(name) ==
    CASE name = "MSysObjects"    -> <<77, 83, 121, 115, 79, 98, 106, 101, 99, 116, 115>>
      [] name = "SensorInterval" -> <<83, 101, 110, 115, 111, 114, 73, 110, 116, 101, 114, 118, 97, 108>>
      [] name = "hero"           -> <<104, 101, 114, 111>>
      [] name = "DoesNotExist"   -> <<68, 111, 101, 115, 78, 111, 116, 69, 120, 105, 115, 116>>
      [] name = "Config"         -> <<67, 111, 110, 102, 105, 103>>
      [] name = "config"         -> <<99, 111, 110, 102, 105, 103>>
      [] name = "Events"         -> <<69, 118, 101, 110, 116, 115>>
      [] name = "GeniSysObjects" -> <<71, 101, 110, 105, 83, 121, 115, 79, 98, 106, 101, 99, 116, 115>>
      [] name = "GeniSysPanels"  -> <<71, 101, 110, 105, 83, 121, 115, 80, 97, 110, 101, 108, 115>>
      [] name = "GeniSys*"       -> <<71, 101, 110, 105, 83, 121, 115, 42>>
      [] name = "NoMatch*"       -> <<78, 111, 77, 97, 116, 99, 104, 42>>
      [] name = "CONFIG"         -> <<67, 79, 78, 70, 73, 71>>
      [] name = "c*"             -> <<99, 42>>
      [] name = "json"           -> <<106, 115, 111, 110>>
      [] name = "yaml"           -> <<121, 97, 109, 108>>
      [] name = "csv"            -> <<99, 115, 118>>
      [] name = "JSON"           -> <<74, 83, 79, 78>>
      [] name = "YAML"           -> <<89, 65, 77, 76>>
      [] name = "CSV"            -> <<67, 83, 86>>
      [] name = "xml"            -> <<120, 109, 108>>
      [] name = "dimmers_boxes"     -> <<100, 105, 109, 109, 101, 114, 115, 95, 98, 111, 120, 101, 115>>
      [] name = "modules"           -> <<109, 111, 100, 117, 108, 101, 115>>
      [] name = "physical_channels" -> <<112, 104, 121, 115, 105, 99, 97, 108, 95, 99, 104, 97, 110, 110, 101, 108, 115>>
      [] name = "logical_channels"  -> <<108, 111, 103, 105, 99, 97, 108, 95, 99, 104, 97, 110, 110, 101, 108, 115>>
      [] name = "areas"             -> <<97, 114, 101, 97, 115>>
      [] name = "panels"            -> <<112, 97, 110, 101, 108, 115>>
      [] name = "presets"           -> <<112, 114, 101, 115, 101, 116, 115>>
      [] name = "lights"            -> <<108, 105, 103, 104, 116, 115>>
      [] name = "fans"              -> <<102, 97, 110, 115>>
      [] name = "curtains"          -> <<99, 117, 114, 116, 97, 105, 110, 115>>
      [] name = "scenes"            -> <<115, 99, 101, 110, 101, 115>>
      [] name = "rooms"             -> <<114, 111, 111, 109, 115>>
      [] name = "schedules"         -> <<115, 99, 104, 101, 100, 117, 108, 101, 115>>
      [] name = "sensors"           -> <<115, 101, 110, 115, 111, 114, 115>>
      [] name = "controllers"       -> <<99, 111, 110, 116, 114, 111, 108, 108, 101, 114, 115>>

\* str.__lt__ on code point sequences: lexicographic, a proper prefix first.
SeqLess(a, b) ==
    \E k \in 1..(Min(Len(a), Len(b)) + 1) :
        /\ \A j \in 1..(k - 1) : a[j] = b[j]
        /\ \/ k > Len(a) /\ k <= Len(b)
           \/ k <= Len(a) /\ k <= Len(b) /\ a[k] < b[k]

\* str.lower() on a code point sequence (ASCII letters).
Lower(cs) == [i \in DOMAIN cs |-> IF cs[i] >= 65 /\ cs[i] <= 90 THEN cs[i] + 32 ELSE cs[i]]

\* A variant that compares ignoring letter case.
StrLessIgnoreCase(x, y) == SeqLess(Lower(Chars(x)), Lower(Chars(y)))

\* str.__lt__ on two names.
StrLess(x, y) == SeqLess(Chars(x), Chars(y))

\* sorted(list(keys)): ascending by code point.
RECURSIVE sorted(_)
sorted(S) ==
    IF S = {} THEN <<>>
    ELSE LET m == CHOOSE x \in S : \A y \in S \ {x} : StrLess(x, y)
         IN  <<m>> \o sorted(S \ {m})

-----------------------------------------------------------------------------
(* Cells and schemas *)

None == "null"

\* The cells a decode holds within the bounds (None also arises where a
\* short column is read past its end).
RawCells == {"i1", "s1", "sx"}

\* What validation of a field reports for a value it rejects.
Invalid == "invalid"

\* pydantic's (lax mode) validation of one value against a field type:
\*   int | None   None stays None, an int stays, a numeric str becomes the int,
\*                any other str is rejected
\*   str | None   None stays None, a str stays, an int is rejected
\*   int          as int | None, but None is rejected
Coerce(type, v) ==
    CASE type = "int | None" ->
            (CASE v = None -> None
               [] v = "i1" -> "i1"
               [] v = "s1" -> "i1"
               [] OTHER    -> Invalid)
      [] type = "str | None" ->
            (CASE v = None -> None
               [] v = "s1" -> "s1"
               [] v = "sx" -> "sx"
               [] OTHER    -> Invalid)
      [] type = "int" ->
            (CASE v = "i1" -> "i1"
               [] v = "s1" -> "i1"
               [] OTHER    -> Invalid)

\* A record schema: the fields in declaration order and the type of each.
Schema(fields, types) == [fields |-> fields, types |-> types]

\* model_map: table name -> record schema.  No field has a default, so every
\* field is required.
model_map ==
    [t \in {"SensorInterval", "hero"} |->
        IF t = "SensorInterval"
        THEN Schema(<<"SensorInterval">>, [f \in {"SensorInterval"} |-> "int | None"])
        ELSE Schema(<<"id", "name", "secret_name", "age">>,
                    [f \in {"id", "name", "secret_name", "age"} |->
                        CASE f = "id"  -> "int"
                          [] f = "age" -> "int | None"
                          [] OTHER     -> "str | None"])]

-----------------------------------------------------------------------------
(* Decoded tables and databases *)

\* A columnar table: the dict's keys in insertion order and the value list
\* of each key.
Table(cols, vals) == [columns |-> cols, values |-> vals]

EmptyDict == Table(<<>>, <<>>)

\* Every decode within the bounds: distinct columns in any order, each with
\* up to MaxRows cells (columns need not have equal lengths).
RawTables ==
    UNION {{Table(cs, v) : v \in [Range(cs) -> SeqsUpTo(RawCells, MaxRows)]} :
             cs \in DistinctSeqs(ColumnNames)}

\* Decodes whose cells all hold the int 1, with one column or none.
PlainTables ==
    {EmptyDict} \cup
    {Table(<<"SensorInterval">>, [c \in {"SensorInterval"} |-> [i \in 1..n |-> "i1"]]) :
       n \in 0..MaxRows}

\* Every column of t has the same number of cells.
Rectangular(t) ==
    \A c, d \in Range(t.columns) : Len(t.values[c]) = Len(t.values[d])

\* What parse_table does for a table: return a decode, or raise.
Returns(t) == [raises |-> FALSE, table |-> t]
Raises(cause) == [raises |-> TRUE, cause |-> cause]

DecodeErrors == {"struct.error", "UnicodeDecodeError"}

\* Databases: one table with any decode, or any catalog of plain tables.
Databases ==
    UNION {[{n} -> {Returns(t) : t \in RawTables}] : n \in {"MSysObjects", "SensorInterval"}}
    \cup
    UNION {[cat -> {Returns(t) : t \in PlainTables} \cup {Raises(e) : e \in DecodeErrors}] :
             cat \in SUBSET TableNames}

\* The databases the providers are asked about: any catalog of plain tables.
CatalogDatabases ==
    UNION {[cat -> {Returns(t) : t \in PlainTables} \cup {Raises(e) : e \in DecodeErrors}] :
             cat \in SUBSET TableNames}

\* The databases whose table names are selected from: any catalog of the
\* names, every table empty.
SelectDatabases ==
    UNION {[cat -> {Returns(EmptyDict)}] : cat \in SUBSET SelectNames}

-----------------------------------------------------------------------------
(* parser.py *)

get_available_tables(d) == sorted(DOMAIN d)

\* The row dictionary built for row i (1-based here, row_idx = i - 1): a
\* column that is too short reads as None.
RowData(raw, i) ==
    [c \in Range(raw.columns) |->
        IF i <= Len(raw.values[c]) THEN raw.values[c][i] ELSE None]

\* model_class(**row_data) succeeds: every field is given and accepted
\* (keys that are not fields are ignored).
RowValid(schema, row) ==
    \A f \in Range(schema.fields) :
        /\ f \in DOMAIN row
        /\ Coerce(schema.types[f], row[f]) # Invalid

\* validated_row.model_dump(): the normalized value of every field.
ModelDump(schema, row) ==
    [f \in Range(schema.fields) |-> Coerce(schema.types[f], row[f])]

\* A variant that takes the length of the last column.
NumRowsOfLastColumn(raw) == Len(raw.values[raw.columns[Len(raw.columns)]])

\* len(next(iter(raw_data.values()))): the length of the first column.
NumRows(raw) == Len(raw.values[raw.columns[1]])

\* A variant that takes the keys from the schema's fields.
ValidatedDataFromFields(schema, raw) ==
    Table(schema.fields, [c \in Range(schema.fields) |-> <<>>])

\* validated_data = {col: [] for col in raw_data.keys()}
ValidatedDataInit(schema, raw) ==
    Table(raw.columns, [c \in Range(raw.columns) |-> <<>>])

\* One pass of the row loop: acc holds validated_data, the row indices of
\* validation_errors and the row indices visited so far.
ValidateRow(schema, raw, i, acc) ==
    LET row == RowData(raw, i)
        keys == Range(acc.data.columns)
    IN
    IF RowValid(schema, row)
    THEN LET row_dict == ModelDump(schema, row) IN
         [data    |-> Table(acc.data.columns,
                            [c \in keys |->
                                IF c \in DOMAIN row_dict
                                THEN Append(acc.data.values[c], row_dict[c])
                                ELSE acc.data.values[c]]),
          errors  |-> acc.errors,
          visited |-> Append(acc.visited, i - 1)]
    ELSE [data    |-> Table(acc.data.columns,
                            [c \in keys |->
                                IF c \in Range(raw.columns)
                                THEN Append(acc.data.values[c], row[c])
                                ELSE acc.data.values[c]]),
          errors  |-> Append(acc.errors, i - 1),
          visited |-> Append(acc.visited, i - 1)]

\* A variant of the loop that gives up at the first row that fails.
RECURSIVE ValidateRowsUntilError(_, _, _, _)
ValidateRowsUntilError(schema, raw, i, acc) ==
    IF i > NumRows(raw) \/ acc.errors # <<>> THEN acc
    ELSE ValidateRowsUntilError(schema, raw, i + 1, ValidateRow(schema, raw, i, acc))

\* for row_idx in range(num_rows): ...
RECURSIVE ValidateRows(_, _, _, _)
ValidateRows(schema, raw, i, acc) ==
    IF i > NumRows(raw) THEN acc
    ELSE ValidateRows(schema, raw, i + 1, ValidateRow(schema, raw, i, acc))

\* _validate_table_data: the validated table, the row indices of the
\* recorded validation errors and the row indices visited, in order.
_validate_table_data(table_name, raw_data) ==
    LET model_class == model_map[table_name]
        start == [data    |-> ValidatedDataInit(model_class, raw_data),
                  errors  |-> <<>>,
                  visited |-> <<>>]
    IN  IF raw_data.columns = <<>> THEN start
        ELSE ValidateRows(model_class, raw_data, 1, start)

\* The result of a get_table_data call that returns data.
Ok(data, errors, visited, parsed) ==
    [status |-> "ok", data |-> data, errors |-> errors, visited |-> visited,
     parsed |-> parsed]

\* A variant that reports the missing table only after asking for its decode.
TableNotFoundAfterDecode(table_name, available_tables) ==
    [status |-> "not_found", table |-> table_name,
     available |-> available_tables, parsed |-> <<table_name>>]

\* raise ValueError(f"Table '{table_name}' not found. Available tables: ...")
TableNotFound(table_name, available_tables) ==
    [status |-> "not_found", table |-> table_name,
     available |-> available_tables, parsed |-> <<>>]

\* A variant that swallows the failure and returns an empty table.
ParseFailedSwallowed(table_name, cause) ==
    Ok(EmptyDict, <<>>, <<>>, <<table_name>>)

\* raise ValueError(f"Failed to parse table '{table_name}': {e}") from e
ParseFailed(table_name, cause) ==
    [status |-> "parse_failed", table |-> table_name, cause |-> cause,
     parsed |-> <<table_name>>]

\* A variant that validates whenever it is asked to.
SkipsValidationUnlessAsked(table_name, validate) == ~validate

\* if not validate or table_name not in model_map
SkipsValidation(table_name, validate) ==
    ~validate \/ table_name \notin DOMAIN model_map

\* get_table_data: what the call returns or raises, and the names it passed
\* to parse_table.
get_table_data(d, table_name, validate) ==
    LET available_tables == get_available_tables(d) IN
    IF table_name \notin Range(available_tables)
    THEN TableNotFound(table_name, available_tables)
    ELSE IF d[table_name].raises
    THEN ParseFailed(table_name, d[table_name].cause)
    ELSE LET raw_data == d[table_name].table IN
         IF SkipsValidation(table_name, validate)
         THEN Ok(raw_data, <<>>, <<>>, <<table_name>>)
         ELSE IF table_name \notin DOMAIN model_map
         THEN \* model_map[table_name] raises KeyError inside the try block
              ParseFailed(table_name, "KeyError")
         ELSE LET v == _validate_table_data(table_name, raw_data)
              IN  Ok(v.data, v.errors, v.visited, <<table_name>>)

\* A variant that validates in place: the raw columns become the validated
\* ones.
raw_data_after_validation_in_place(table_name, raw_data) ==
    _validate_table_data(table_name, raw_data).data

\* raw_data after _validate_table_data(table_name, raw_data): the function
\* reads raw_data by index and appends only to the lists of validated_data,
\* a dict of lists of its own.
raw_data_after_validation(table_name, raw_data) == raw_data

\* The handle after get_table_data(d, table_name, validate), were parse_table
\* to hand out the very dict the handle keeps for the table.
handle_after_get_table_data(d, table_name, validate) ==
    IF /\ table_name \in DOMAIN d
       /\ ~d[table_name].raises
       /\ ~SkipsValidation(table_name, validate)
    THEN [d EXCEPT ![table_name] =
             Returns(raw_data_after_validation(table_name, d[table_name].table))]
    ELSE d

-----------------------------------------------------------------------------
(* providers/base.py, raw.py, dynalite.py, device.py *)

\* The keys of _DYNALITE_TABLES and of _DEVICE_TABLES.
_DYNALITE_TABLES ==
    {"dimmers_boxes", "modules", "physical_channels", "logical_channels", "areas",
     "panels", "presets"}
_DEVICE_TABLES ==
    {"lights", "fans", "curtains", "scenes", "rooms", "schedules", "sensors",
     "controllers"}

\* The browsing modes, in the order of TableBrowser.providers.
providers == <<"Raw", "Dynalite", "Device">>

\* DataProvider.get_available_tables of the provider of a mode.
provider_get_available_tables(mode, d) ==
    CASE mode = "Raw"      -> sorted(DOMAIN d)
      [] mode = "Dynalite" -> sorted(_DYNALITE_TABLES)
      [] mode = "Device"   -> sorted(_DEVICE_TABLES)

\* DataProvider.supports_table
supports_table(mode, d, table_name) ==
    table_name \in Range(provider_get_available_tables(mode, d))

\* raise ValueError(f"... table '{table_name}' not found. Available tables: ...")
ProviderTableNotFound(mode, d, table_name) ==
    [status |-> "not_found", mode |-> mode, table |-> table_name,
     available |-> provider_get_available_tables(mode, d)]

\* A variant that answers with an empty table.
NotImplementedReturnsEmpty(mode, table_name) ==
    [status |-> "ok", data |-> EmptyDict]

\* raise NotImplementedError(f"... parser for table '{table_name}' not yet
\* implemented. ...")
NotImplemented(mode, table_name) ==
    [status |-> "NotImplementedError", mode |-> mode, table |-> table_name]

\* DataProvider.get_table_data of the provider of a mode: the raw provider
\* returns the decode as it is, the other two are not implemented.
provider_get_table_data(mode, d, table_name) ==
    IF ~supports_table(mode, d, table_name)
    THEN ProviderTableNotFound(mode, d, table_name)
    ELSE IF mode # "Raw" THEN NotImplemented(mode, table_name)
    ELSE IF d[table_name].raises
    THEN [status |-> "parse_failed", table |-> table_name, cause |-> d[table_name].cause]
    ELSE [status |-> "ok", data |-> d[table_name].table]

-----------------------------------------------------------------------------
(* utils.py: select_tables *)

\* The table_patterns argument: None, or a list of patterns.
NoPatterns == [is_none |-> TRUE]
PatternList(l) == [is_none |-> FALSE, value |-> l]

\* fnmatch's match of a name s against a pattern p, both as code points:
\* "*" (42) matches any run of characters, "?" (63) any one character and
\* any other character itself.  On POSIX neither side is case-normalised.
RECURSIVE GlobMatch(_, _)
GlobMatch(p, s) ==
    IF p = <<>> THEN s = <<>>
    ELSE IF Head(p) = 42
    THEN GlobMatch(Tail(p), s) \/ (s # <<>> /\ GlobMatch(p, Tail(s)))
    ELSE IF Head(p) = 63
    THEN s # <<>> /\ GlobMatch(Tail(p), Tail(s))
    ELSE s # <<>> /\ Head(s) = Head(p) /\ GlobMatch(Tail(p), Tail(s))

\* fnmatch.filter(available_tables, pattern)
fnmatch_filter(available_tables, pattern) ==
    {t \in Range(available_tables) : GlobMatch(Chars(pattern), Chars(t))}

\* The tables with table.lower() == pattern.lower()
LowerEqual(available_tables, pattern) ==
    {t \in Range(available_tables) : Lower(Chars(t)) = Lower(Chars(pattern))}

\* selected_tables after the loop over the patterns: every pattern adds its
\* fnmatch matches and the names equal to it ignoring case.
selected_tables(available_tables, table_patterns) ==
    UNION {fnmatch_filter(available_tables, pattern)
              \cup LowerEqual(available_tables, pattern) :
           pattern \in Range(table_patterns)}

\* A variant that returns the empty selection.
NoTablesFoundReturnsEmpty(table_patterns, available_tables) ==
    [status |-> "ok", value |-> <<>>]

\* raise ValueError(f"No tables found matching patterns: ... Available
\* tables: ...")
NoTablesFound(table_patterns, available_tables) ==
    [status |-> "no_tables_found", patterns |-> table_patterns,
     available |-> available_tables]

\* select_tables: the list it returns, or the error it raises.
select_tables(available_tables, table_patterns) ==
    IF table_patterns.is_none \/ table_patterns.value = <<>>
    THEN [status |-> "ok", value |-> available_tables]
    ELSE LET selected_list ==
                 sorted(selected_tables(available_tables, table_patterns.value))
         IN  IF selected_list = <<>>
             THEN NoTablesFound(table_patterns.value, available_tables)
             ELSE [status |-> "ok", value |-> selected_list]

-----------------------------------------------------------------------------
(* utils.py: get_exporter *)

\* The keys of the exporters dict, in its order, and the exporter class of
\* each (named by its get_format_name()).
ExporterKeys == <<"json", "yaml", "csv">>

exporters ==
    [k \in Range(ExporterKeys) |->
        CASE k = "json" -> "JSON"
          [] k = "yaml" -> "YAML"
          [] k = "csv"  -> "CSV"]

\* get_file_extension()
get_file_extension(exporter) ==
    CASE exporter = "JSON" -> ".json"
      [] exporter = "YAML" -> ".yaml"
      [] exporter = "CSV"  -> ".csv"

\* A variant that looks the format name up as it is given.
format_as_given(format_name) == Chars(format_name)

\* format_lower = format_name.lower()
format_lower(format_name) == Lower(Chars(format_name))

\* raise ValueError(f"Unsupported format '{format_name}'. Available
\* formats: ...")
UnsupportedFormat(format_name, available) ==
    [status |-> "unsupported_format", format |-> format_name,
     available |-> available]

\* get_exporter: the exporter class it instantiates, or the error it raises.
get_exporter(format_name) ==
    LET known == {k \in DOMAIN exporters : Chars(k) = format_lower(format_name)}
    IN  IF known = {}
        THEN UnsupportedFormat(format_name, ExporterKeys)
        ELSE [status |-> "ok", exporter |-> exporters[CHOOSE k \in known : TRUE]]

\* SimpleDataProvider.get_table_data: validate keeps its default, True.
SimpleDataProvider_get_table_data(d, table_name) ==
    get_table_data(d, table_name, TRUE)

\* SimpleDataProvider.get_mode_name
get_mode_name == "raw"

-----------------------------------------------------------------------------
(* Output paths and the file system *)

\* A pathlib.Path: the parent directory and the name, split at its last dot
\* into stem and suffix.  A stem is the sequence of the strings it was
\* formatted from.
Path(parent, stem, suffix) == [parent |-> parent, stem |-> stem, suffix |-> suffix]

\* Path.with_suffix and Path.name
with_suffix(path, suffix) == [path EXCEPT !.suffix = suffix]
PathName(path) == IF path.suffix = "" THEN path.stem ELSE path.stem \o <<path.suffix>>

\* The paths an export is asked to write to.
OutputPaths ==
    {Path("out", <<"data">>, ".json"),
     Path("/root", <<"test">>, ".json"),
     Path("/readonly/new", <<"data">>, ".json")}

\* The directories that mkdir cannot create, and the directories in which
\* no file can be opened for writing.
MkdirDenied == {"/readonly/new"}
OpenDenied == {"/root"}

\* The PermissionError that mkdir or open raises.
PermissionError(op, path) == [status |-> "PermissionError", op |-> op, path |-> path]

\* A written file: its path, the exporter that wrote it and what was dumped.
File(path, exporter, content) ==
    [path |-> path, format |-> exporter, content |-> content]

\* How a method of an exporter ends: it returns, or raises error; written is
\* the files it wrote until then, in order.
Wrote(files) == [raised |-> FALSE, written |-> files]
Raised(error, files) == [raised |-> TRUE, error |-> error, written |-> files]

-----------------------------------------------------------------------------
(* exporters/base.py, json.py, yaml.py, csv.py *)

\* DataExporter.validate_tables
validate_tables(d, table_names) ==
    LET available == Range(get_available_tables(d))
        invalid == SelectSeq(table_names, LAMBDA n : n \notin available)
    IN  IF invalid # <<>>
        THEN [status |-> "invalid_table_names", invalid |-> invalid,
              available |-> sorted(available)]
        ELSE [status |-> "ok"]

\* _convert_to_records: one record per cell of the first column; a column
\* that is too short reads as None.
_convert_to_records(table_data) ==
    IF table_data.columns = <<>> THEN <<>>
    ELSE LET columns == table_data.columns
             num_rows == Len(table_data.values[columns[1]])
         IN  [i \in 1..num_rows |->
                [column \in Range(columns) |->
                    IF i <= Len(table_data.values[column])
                    THEN table_data.values[column][i]
                    ELSE None]]

\* The entry of one table in tables_data.
TableEntry(table_data) ==
    LET records == _convert_to_records(table_data) IN
    [columns      |-> table_data.columns,
     record_count |-> Len(records),
     records      |-> records]

\* export_data of export_single_table (JSON and YAML).
SingleTableDocument(table_name, table_data) ==
    LET records == _convert_to_records(table_data) IN
    [table_name    |-> table_name,
     provider_mode |-> get_mode_name,
     record_count  |-> Len(records),
     columns       |-> table_data.columns,
     records       |-> records]

\* pd.DataFrame(table_data) of columns of equal length (pd.DataFrame() for
\* the empty dict): the columns and one row per index.
DataFrame(table_data) ==
    [columns |-> table_data.columns,
     rows    |-> IF table_data.columns = <<>> THEN <<>>
                 ELSE [i \in 1..NumRows(table_data) |->
                         [c \in Range(table_data.columns) |-> table_data.values[c][i]]]]

\* pd.DataFrame raises ValueError for columns of unequal length.
DataFrameError == [status |-> "ValueError", message |-> "All arrays must be of the same length"]

\* df.insert(0, "table_name", table_name) on the frame of a table.
TableFrame(table_name, table_data) ==
    LET df == DataFrame(table_data) IN
    [columns |-> <<"table_name">> \o df.columns,
     rows    |-> [i \in DOMAIN df.rows |->
                    [c \in {"table_name"} \cup Range(df.columns) |->
                        IF c = "table_name" THEN table_name ELSE df.rows[i][c]]]]

\* The frame of the separator row that follows a table.
SeparatorFrame(table_data) ==
    [columns |-> <<"table_name">> \o table_data.columns,
     rows    |-> <<[c \in {"table_name"} \cup Range(table_data.columns) |-> "---"]>>]

\* What export_single_table dumps for a decoded table.
SingleTableContent(exporter, table_name, table_data) ==
    IF exporter = "CSV" THEN [frames |-> <<DataFrame(table_data)>>]
    ELSE SingleTableDocument(table_name, table_data)

\* export_single_table from the answer of data_provider.get_table_data on:
\* the decode may have raised, and so may pd.DataFrame and open.
DumpSingleTable(exporter, table_name, output_path, got) ==
    IF got.status # "ok" THEN Raised(got, <<>>)
    ELSE IF exporter = "CSV" /\ ~Rectangular(got.data)
    THEN Raised(DataFrameError, <<>>)
    ELSE IF output_path.parent \in OpenDenied
    THEN Raised(PermissionError("open", output_path), <<>>)
    ELSE Wrote(<<File(output_path, exporter,
                      SingleTableContent(exporter, table_name, got.data))>>)

\* export_single_table
export_single_table(d, exporter, table_name, output_path) ==
    LET checked == validate_tables(d, <<table_name>>) IN
    IF checked.status # "ok" THEN Raised(checked, <<>>)
    ELSE IF output_path.parent \in MkdirDenied
    THEN Raised(PermissionError("mkdir", output_path.parent), <<>>)
    ELSE DumpSingleTable(exporter, table_name, output_path,
                         SimpleDataProvider_get_table_data(d, table_name))

\* The file of one table in _export_multiple_separate_files.
SeparateFilePath(exporter, table_name, output_path) ==
    LET base_path == with_suffix(output_path, "") IN
    Path(base_path.parent, PathName(base_path) \o <<"_", table_name>>,
         get_file_extension(exporter))

\* _export_multiple_separate_files: the loop from table_names[i] on.
RECURSIVE _export_multiple_separate_files(_, _, _, _, _, _)
_export_multiple_separate_files(d, exporter, table_names, output_path, i, files) ==
    IF i > Len(table_names) THEN Wrote(files)
    ELSE LET file_path == SeparateFilePath(exporter, table_names[i], output_path)
             one == export_single_table(d, exporter, table_names[i], file_path)
         IN  IF one.raised THEN Raised(one.error, files)
             ELSE _export_multiple_separate_files(d, exporter, table_names, output_path,
                                                  i + 1, files \o one.written)

\* A variant of the loop body that keeps the last table's count as the total.
AddTableLastCount(acc, table_name, table_data) ==
    LET entry == TableEntry(table_data) IN
    [tables_data   |-> [n \in DOMAIN acc.tables_data \cup {table_name} |->
                           IF n = table_name THEN entry ELSE acc.tables_data[n]],
     total_records |-> entry.record_count]

\* The body of the loop of _export_multiple_single_file (JSON and YAML):
\* tables_data[table_name] = {...}; total_records += len(records)
AddTable(acc, table_name, table_data) ==
    LET entry == TableEntry(table_data) IN
    [tables_data   |-> [n \in DOMAIN acc.tables_data \cup {table_name} |->
                           IF n = table_name THEN entry ELSE acc.tables_data[n]],
     total_records |-> acc.total_records + entry.record_count]

\* The loop of _export_multiple_single_file (JSON and YAML) from
\* table_names[i] on: it ends at the first table whose decode raises.
RECURSIVE CollectTables(_, _, _, _)
CollectTables(d, table_names, i, acc) ==
    IF i > Len(table_names) THEN [raised |-> FALSE, acc |-> acc]
    ELSE LET got == SimpleDataProvider_get_table_data(d, table_names[i]) IN
         IF got.status # "ok" THEN [raised |-> TRUE, error |-> got]
         ELSE CollectTables(d, table_names, i + 1,
                            AddTable(acc, table_names[i], got.data))

\* The frames one pass of the CSV loop appends to combined_data: the table
\* when it has data, and a separator row after it when another table follows.
TableFrames(table_name, table_data, followed) ==
    IF table_data.columns = <<>> THEN <<>>
    ELSE IF followed
    THEN <<TableFrame(table_name, table_data), SeparatorFrame(table_data)>>
    ELSE <<TableFrame(table_name, table_data)>>

\* The loop of the CSV _export_multiple_single_file from table_names[i] on.
RECURSIVE CombineTables(_, _, _, _)
CombineTables(d, table_names, i, combined_data) ==
    IF i > Len(table_names) THEN [raised |-> FALSE, acc |-> combined_data]
    ELSE LET got == SimpleDataProvider_get_table_data(d, table_names[i]) IN
         IF got.status # "ok" THEN [raised |-> TRUE, error |-> got]
         ELSE IF ~Rectangular(got.data) THEN [raised |-> TRUE, error |-> DataFrameError]
         ELSE CombineTables(d, table_names, i + 1,
                            combined_data \o TableFrames(table_names[i], got.data,
                                                         i < Len(table_names)))

\* What _export_multiple_single_file dumps once every table is decoded.
SingleFileContent(exporter, table_names, acc) ==
    IF exporter = "CSV"
    THEN [frames |-> IF acc # <<>> THEN acc ELSE <<DataFrame(EmptyDict)>>]
    ELSE [provider_mode |-> get_mode_name,
          table_count   |-> Len(table_names),
          total_records |-> acc.total_records,
          tables        |-> acc.tables_data]

\* A variant that opens the output file before the loop, so that a failure
\* in the loop leaves a truncated file behind.
DumpSingleFileOpenedFirst(exporter, table_names, output_path, loop) ==
    IF output_path.parent \in OpenDenied
    THEN Raised(PermissionError("open", output_path), <<>>)
    ELSE IF loop.raised
    THEN Raised(loop.error, <<File(output_path, exporter, <<>>)>>)
    ELSE Wrote(<<File(output_path, exporter,
                      SingleFileContent(exporter, table_names, loop.acc))>>)

\* _export_multiple_single_file from the end of its loop on: the file is
\* opened once every table is decoded.
DumpSingleFile(exporter, table_names, output_path, loop) ==
    IF loop.raised THEN Raised(loop.error, <<>>)
    ELSE IF output_path.parent \in OpenDenied
    THEN Raised(PermissionError("open", output_path), <<>>)
    ELSE Wrote(<<File(output_path, exporter,
                      SingleFileContent(exporter, table_names, loop.acc))>>)

\* _export_multiple_single_file
_export_multiple_single_file(d, exporter, table_names, output_path) ==
    IF output_path.parent \in MkdirDenied
    THEN Raised(PermissionError("mkdir", output_path.parent), <<>>)
    ELSE DumpSingleFile(exporter, table_names, output_path,
                        IF exporter = "CSV"
                        THEN CombineTables(d, table_names, 1, <<>>)
                        ELSE CollectTables(d, table_names, 1,
                                           [tables_data |-> <<>>, total_records |-> 0]))

\* export_multiple_tables
export_multiple_tables(d, exporter, table_names, output_path, single_file) ==
    LET checked == validate_tables(d, table_names) IN
    IF checked.status # "ok" THEN Raised(checked, <<>>)
    ELSE IF single_file
    THEN _export_multiple_single_file(d, exporter, table_names, output_path)
    ELSE _export_multiple_separate_files(d, exporter, table_names, output_path, 1, <<>>)

-----------------------------------------------------------------------------
(* utils.py: export_tables *)

\* raise ValueError(f"Export failed: {e}") from e
ExportFailed(e) == [status |-> "export_failed", cause |-> e]

\* A variant that names each file after the whole name of the output path.
OutputFileKeepsSuffix(output_base, table, extension) ==
    Path(output_base.parent, PathName(output_base) \o <<"_", table>>, extension)

\* output_base.parent / f"{output_base.stem}_{table}{extension}"
OutputFile(output_base, table, extension) ==
    Path(output_base.parent, output_base.stem \o <<"_", table>>, extension)

\* export_tables once the exporter has run: the dict it returns, or the
\* error it raises, and the files written.
ExportResult(output_path, format_name, single_file, selected, extension, run) ==
    IF run.raised
    THEN [outcome |-> ExportFailed(run.error), written |-> run.written]
    ELSE [outcome |-> [status |-> "ok",
                       result |-> [format          |-> format_name,
                                   tables_exported |-> Len(selected),
                                   table_names     |-> selected,
                                   output_files    |->
                                       IF single_file THEN <<output_path>>
                                       ELSE [i \in DOMAIN selected |->
                                               OutputFile(output_path, selected[i],
                                                          extension)]]],
          written |-> run.written]

\* export_tables from the answers of select_tables and get_exporter on;
\* select_tables is called first, so its error is the one raised when both
\* fail.
ExportSelected(d, output_path, format_name, single_file, selection, found) ==
    IF selection.status # "ok"
    THEN [outcome |-> ExportFailed(selection), written |-> <<>>]
    ELSE IF found.status # "ok"
    THEN [outcome |-> ExportFailed(found), written |-> <<>>]
    ELSE ExportResult(output_path, format_name, single_file, selection.value,
                      get_file_extension(found.exporter),
                      export_multiple_tables(d, found.exporter, selection.value,
                                             output_path, single_file))

\* export_tables: what the call returns or raises, and the files it wrote.
export_tables(d, output_path, format_name, tables, single_file) ==
    ExportSelected(d, output_path, format_name, single_file,
                   select_tables(get_available_tables(d), tables),
                   get_exporter(format_name))

-----------------------------------------------------------------------------
(* api.py: the MerlinDB facade *)

VARIABLES
    db,                 \* self._db: the open database
    _available_tables,  \* self._available_tables: the cached name list
    call,               \* the last call and its arguments
    ret,                \* what that call returned or raised
    written,            \* the files that call wrote, in order
    app                 \* the TableBrowser application, once one is started

vars == <<db, _available_tables, call, ret, written, app>>

\* No TableBrowser runs on the database.
NoApp == [running |-> FALSE]

Unset == [is_none |-> TRUE]
Cached(l) == [is_none |-> FALSE, value |-> l]

\* MerlinDB.__init__
Init ==
    /\ db \in Databases
    /\ _available_tables = Unset
    /\ call = [op |-> "__init__"]
    /\ ret = [status |-> "ok"]
    /\ written = <<>>
    /\ app = NoApp

\* The cache after a list_tables() call; its value is the list returned.
CacheAfterList ==
    IF _available_tables.is_none THEN Cached(get_available_tables(db))
    ELSE _available_tables

\* MerlinDB.list_tables
ListTables ==
    /\ _available_tables' = CacheAfterList
    /\ call' = [op |-> "list_tables"]
    /\ ret' = [status |-> "ok", value |-> CacheAfterList.value]
    /\ written' = <<>>
    /\ UNCHANGED db
    /\ UNCHANGED app

\* A variant in which list_tables returns the cached list itself: what the
\* caller does to the list it holds is done to the cache.
cache_after_caller_change_aliased(cache, held) == Cached(held)

\* self._available_tables after a caller changed the list that list_tables()
\* returned into held: the call returned self._available_tables.copy(), a
\* list of its own, so the cache keeps its value.
cache_after_caller_change(cache, held) == cache

\* What a caller may turn the list it was given into: it appends a name, or
\* clears the list.
CallerChanges(l) == {Append(l, NoSuchTable), <<>>}

\* The caller of the last list_tables() changes the list it was given; ret
\* is that list afterwards.
ChangeReturnedList ==
    /\ call.op = "list_tables"
    /\ \E held \in CallerChanges(ret.value) :
          /\ ret' = [status |-> "ok", value |-> held]
          /\ _available_tables' = cache_after_caller_change(_available_tables, held)
    /\ call' = [op |-> "change_returned_list"]
    /\ written' = <<>>
    /\ UNCHANGED db
    /\ UNCHANGED app

\* MerlinDB.get_table
GetTable(table_name, validate) ==
    /\ call' = [op |-> "get_table", table_name |-> table_name, validate |-> validate]
    /\ ret' = get_table_data(db, table_name, validate)
    /\ db' = handle_after_get_table_data(db, table_name, validate)
    /\ written' = <<>>
    /\ UNCHANGED _available_tables
    /\ UNCHANGED app

\* MerlinDB.table_exists (it goes through list_tables, which fills the cache)
TableExists(table_name) ==
    /\ _available_tables' = CacheAfterList
    /\ call' = [op |-> "table_exists", table_name |-> table_name]
    /\ ret' = [status |-> "ok", value |-> table_name \in Range(CacheAfterList.value)]
    /\ written' = <<>>
    /\ UNCHANGED db
    /\ UNCHANGED app

\* The record get_table_info builds from the raw decode.
TableInfo(table_name, data) ==
    LET columns == data.columns
        record_count == IF columns # <<>> THEN Len(data.values[columns[1]]) ELSE 0
    IN  [name |-> table_name,
         columns |-> columns,
         column_count |-> Len(columns),
         record_count |-> record_count,
         has_pydantic_model |-> table_name \in DOMAIN model_map]

\* The record get_table_info returns when get_table raised e.
DegradedInfo(table_name, e) ==
    [name |-> table_name,
     error |-> e,
     columns |-> <<>>,
     column_count |-> 0,
     record_count |-> 0,
     has_pydantic_model |-> FALSE]

\* A variant without the try/except around get_table.
get_table_info_unguarded(tables, table_name) ==
    IF table_name \notin Range(tables)
    THEN TableNotFound(table_name, tables)
    ELSE LET got == get_table_data(db, table_name, FALSE) IN
         IF got.status = "ok"
         THEN [status |-> "ok", info |-> TableInfo(table_name, got.data),
               parsed |-> got.parsed]
         ELSE got

\* The body of get_table_info, given the list that list_tables() returns.
get_table_info(tables, table_name) ==
    IF table_name \notin Range(tables)
    THEN TableNotFound(table_name, tables)
    ELSE LET got == get_table_data(db, table_name, FALSE) IN
         [status |-> "ok",
          info   |-> IF got.status = "ok" THEN TableInfo(table_name, got.data)
                     ELSE DegradedInfo(table_name, got),
          parsed |-> got.parsed]

\* MerlinDB.get_table_info
GetTableInfo(table_name) ==
    /\ _available_tables' = CacheAfterList
    /\ call' = [op |-> "get_table_info", table_name |-> table_name]
    /\ ret' = get_table_info(CacheAfterList.value, table_name)
    /\ written' = <<>>
    /\ UNCHANGED db
    /\ UNCHANGED app

\* The counters of get_database_summary before its loop, and the tables the
\* loop has asked get_table for.
SummaryStart ==
    [total_records |-> 0, tables_with_data |-> 0, tables_with_models |-> 0,
     visited |-> <<>>]

\* A variant that counts every decoded table with a column as one with data.
SummaryStepCountsEmpty(d, table_name, acc) ==
    LET got == get_table_data(d, table_name, FALSE) IN
    IF got.status # "ok"
    THEN [acc EXCEPT !.visited = Append(@, table_name)]
    ELSE LET data == got.data
             record_count == IF data.columns # <<>>
                             THEN Len(data.values[data.columns[1]]) ELSE 0
         IN  [total_records      |-> acc.total_records + record_count,
              tables_with_data   |-> acc.tables_with_data
                                        + (IF data.columns # <<>> THEN 1 ELSE 0),
              tables_with_models |-> acc.tables_with_models
                                        + (IF table_name \in DOMAIN model_map THEN 1 ELSE 0),
              visited            |-> Append(acc.visited, table_name)]

\* One pass of the loop of get_database_summary: a get_table that raises
\* ends the pass (except Exception: continue) before anything is counted.
SummaryStep(d, table_name, acc) ==
    LET got == get_table_data(d, table_name, FALSE) IN
    IF got.status # "ok"
    THEN [acc EXCEPT !.visited = Append(@, table_name)]
    ELSE LET data == got.data
             record_count == IF data.columns # <<>>
                             THEN Len(data.values[data.columns[1]]) ELSE 0
         IN  [total_records      |-> acc.total_records + record_count,
              tables_with_data   |-> acc.tables_with_data
                                        + (IF record_count > 0 THEN 1 ELSE 0),
              tables_with_models |-> acc.tables_with_models
                                        + (IF table_name \in DOMAIN model_map THEN 1 ELSE 0),
              visited            |-> Append(acc.visited, table_name)]

\* for table_name in tables: ...
RECURSIVE SummaryLoop(_, _, _, _)
SummaryLoop(d, tables, i, acc) ==
    IF i > Len(tables) THEN acc
    ELSE SummaryLoop(d, tables, i + 1, SummaryStep(d, tables[i], acc))

\* f"{(num / den * 100):.1f}%": the percentage rounded to one decimal, as its
\* whole part and its decimal digits (no catalog within the bounds gives a
\* tie between two decimals).
FormatPercent(num, den) ==
    LET tenths == (num * 2000 + den) \div (2 * den) IN
    [whole |-> tenths \div 10, decimals |-> <<tenths % 10>>]

\* The literal "0%".
ZeroPercent == [whole |-> 0, decimals |-> <<>>]

\* The body of get_database_summary, given the list that list_tables()
\* returns.
get_database_summary(d, tables) ==
    LET acc == SummaryLoop(d, tables, 1, SummaryStart) IN
    [status  |-> "ok",
     summary |-> [total_tables       |-> Len(tables),
                  tables_with_data   |-> acc.tables_with_data,
                  tables_with_models |-> acc.tables_with_models,
                  total_records      |-> acc.total_records,
                  model_coverage     |-> IF tables # <<>>
                                         THEN FormatPercent(acc.tables_with_models,
                                                            Len(tables))
                                         ELSE ZeroPercent],
     visited |-> acc.visited]

\* MerlinDB.get_database_summary
GetDatabaseSummary ==
    /\ _available_tables' = CacheAfterList
    /\ call' = [op |-> "get_database_summary"]
    /\ ret' = get_database_summary(db, CacheAfterList.value)
    /\ written' = <<>>
    /\ UNCHANGED db
    /\ UNCHANGED app

\* MerlinDB.__exit__(exc_type, exc_val, exc_tb): the body is `pass`.  The
\* scope is left normally or by the exception of the last call in it;
\* __exit__ returns None and self._db and the cache are as they were.
Exit ==
    /\ call.op \notin {"__exit__", "change_returned_list"}
    /\ call' = [op |-> "__exit__", by_exception |-> ret.status # "ok"]
    /\ ret' = [status |-> "ok"]
    /\ written' = <<>>
    /\ UNCHANGED <<db, _available_tables>>
    /\ UNCHANGED app

Next ==
    \/ ListTables
    \/ \E n \in ArgNames : TableExists(n)
    \/ \E n \in ArgNames, v \in BOOLEAN : GetTable(n, v)
    \/ \E n \in ArgNames : GetTableInfo(n)
    \/ GetDatabaseSummary
    \/ ChangeReturnedList
    \/ Exit

Spec == Init /\ [][Next]_vars

-----------------------------------------------------------------------------
(* api.py: MerlinDB.export.  export_tables opens the database file itself,  *)
(* exports from that handle and returns: it neither reads nor changes the   *)
(* facade's cache and carries nothing over to a later call, so one run of   *)
(* it is explored from every database.                                      *)

\* The tables arguments an export is called with.
ExportTablesArgs == {NoPatterns} \cup {PatternList(<<p>>) : p \in ExportPatterns}

ExportInit ==
    /\ db \in Databases
    /\ _available_tables = Unset
    /\ call = [op |-> "__init__"]
    /\ ret = [status |-> "ok"]
    /\ written = <<>>
    /\ app = NoApp

\* MerlinDB.export
Export(output_path, format, tables, separate_files) ==
    /\ call.op = "__init__"
    /\ call' = [op |-> "export", output_path |-> output_path, format |-> format,
                tables |-> tables, separate_files |-> separate_files]
    /\ \E done \in {export_tables(db, output_path, format, tables, ~separate_files)} :
          /\ ret' = done.outcome
          /\ written' = done.written
    /\ UNCHANGED <<db, _available_tables>>
    /\ UNCHANGED app

ExportNext ==
    \E output_path \in OutputPaths, format \in FormatNames,
       tables \in ExportTablesArgs, separate_files \in BOOLEAN :
        Export(output_path, format, tables, separate_files)

ExportSpec == ExportInit /\ [][ExportNext]_vars

-----------------------------------------------------------------------------
(* utils.py: select_tables applied to the names of a catalog.  It is a      *)
(* function of its arguments, so one application is explored from every     *)
(* catalog.                                                                 *)

\* The table_patterns arguments select_tables is called with.
SelectArgs ==
    {NoPatterns} \cup {PatternList(l) : l \in SeqsUpTo(SelectPatterns, MaxPatterns)}

SelectInit ==
    /\ db \in SelectDatabases
    /\ _available_tables = Unset
    /\ call = [op |-> "__init__"]
    /\ ret = [status |-> "ok"]
    /\ written = <<>>
    /\ app = NoApp

\* select_tables(get_available_tables(db), table_patterns)
SelectTables(table_patterns) ==
    /\ call.op = "__init__"
    /\ call' = [op |-> "select_tables", table_patterns |-> table_patterns]
    /\ ret' = select_tables(get_available_tables(db), table_patterns)
    /\ written' = <<>>
    /\ UNCHANGED <<db, _available_tables>>
    /\ UNCHANGED app

SelectNext == \E table_patterns \in SelectArgs : SelectTables(table_patterns)

SelectSpec == SelectInit /\ [][SelectNext]_vars

-----------------------------------------------------------------------------
(* providers/: the methods of the three providers.  Each is a function of   *)
(* the database and its arguments, so one call is explored from every       *)
(* database.                                                                *)

\* The names a provider is asked about.
ProviderArgNames == ArgNames \cup _DYNALITE_TABLES \cup _DEVICE_TABLES

ProviderInit ==
    /\ db \in CatalogDatabases
    /\ _available_tables = Unset
    /\ call = [op |-> "__init__"]
    /\ ret = [status |-> "ok"]
    /\ written = <<>>
    /\ app = NoApp

\* provider_class(db).get_available_tables()
ProviderGetAvailableTables(mode) ==
    /\ call.op = "__init__"
    /\ call' = [op |-> "get_available_tables", mode |-> mode]
    /\ ret' = [status |-> "ok", value |-> provider_get_available_tables(mode, db)]
    /\ UNCHANGED <<db, _available_tables, written, app>>

\* provider_class(db).supports_table(table_name)
ProviderSupportsTable(mode, table_name) ==
    /\ call.op = "__init__"
    /\ call' = [op |-> "supports_table", mode |-> mode, table_name |-> table_name]
    /\ ret' = [status |-> "ok", value |-> supports_table(mode, db, table_name)]
    /\ UNCHANGED <<db, _available_tables, written, app>>

\* provider_class(db).get_table_data(table_name)
ProviderGetTableData(mode, table_name) ==
    /\ call.op = "__init__"
    /\ call' = [op |-> "get_table_data", mode |-> mode, table_name |-> table_name]
    /\ ret' = provider_get_table_data(mode, db, table_name)
    /\ UNCHANGED <<db, _available_tables, written, app>>

ProviderNext ==
    \/ \E mode \in Range(providers) : ProviderGetAvailableTables(mode)
    \/ \E mode \in Range(providers), n \in ProviderArgNames : ProviderSupportsTable(mode, n)
    \/ \E mode \in Range(providers), n \in ProviderArgNames : ProviderGetTableData(mode, n)

ProviderSpec == ProviderInit /\ [][ProviderNext]_vars

-----------------------------------------------------------------------------
(* The exporters called directly, as a caller that holds a provider calls   *)
(* them: the table names are the caller's, so a name may be unavailable.    *)

\* The lists of table names an exporter is asked to export.
ExporterTableLists ==
    {<<n>> : n \in ArgNames} \cup {<<n, m>> : n \in ArgNames, m \in ArgNames}

ExporterInit ==
    /\ db \in CatalogDatabases
    /\ _available_tables = Unset
    /\ call = [op |-> "__init__"]
    /\ ret = [status |-> "ok"]
    /\ written = <<>>
    /\ app = NoApp

\* DataExporter.export_multiple_tables of the exporter of one format
ExportMultipleTables(exporter, table_names, output_path, single_file) ==
    /\ call.op = "__init__"
    /\ call' = [op |-> "export_multiple_tables", exporter |-> exporter,
                table_names |-> table_names, output_path |-> output_path,
                single_file |-> single_file]
    /\ \E run \in {export_multiple_tables(db, exporter, table_names, output_path,
                                           single_file)} :
          /\ ret' = IF run.raised THEN run.error ELSE [status |-> "ok"]
          /\ written' = run.written
    /\ UNCHANGED <<db, _available_tables, app>>

ExporterNext ==
    \E exporter \in Range(exporters), table_names \in ExporterTableLists,
       output_path \in OutputPaths, single_file \in BOOLEAN :
        ExportMultipleTables(exporter, table_names, output_path, single_file)

ExporterSpec == ExporterInit /\ [][ExporterNext]_vars

-----------------------------------------------------------------------------
(* browser.py: the TableBrowser application.  app is the TableBrowser       *)
(* object with its widgets: the options of the table selector, the columns  *)
(* rows and title of the data table, and the last notification.  Texts that *)
(* are typed or shown are sequences of code points.  The events are not    *)
(* calls of the facade: call, ret and written stay as they are.             *)

\* The decodes that are browsed besides the plain ones: two columns of at
\* most one cell each, of equal length or not.
BrowsedTables ==
    {t \in RawTables :
        /\ Len(t.columns) > 1
        /\ \A c \in Range(t.columns) : Len(t.values[c]) <= 1}

\* The databases that are browsed: any catalog of plain tables that lacks
\* one of the names, or one table of two columns.
BrowserDatabases ==
    {d \in CatalogDatabases : DOMAIN d # TableNames}
    \cup {[n \in {"hero"} |-> Returns(t)] : t \in BrowsedTables}

\* The options that are picked in the table selector: the names of the
\* catalog and one table of each of the other two providers.
PickedTables == TableNames \cup {"areas", "lights"}

\* What the search box is set to: "" and "X".
SearchInputs == {<<>>, <<88>>}

\* The value of a Select.Changed event when nothing is selected: None, or
\* the selector's blank marker, whose str is not the name of any option.
BlankValues == {None, "Select.BLANK"}

\* The title of a data table that was given none.
NoTitle == [table_name |-> None, filtered |-> FALSE, rows |-> 0]

\* TableBrowser.__init__
TableBrowser ==
    [running          |-> TRUE,
     mounted          |-> FALSE,
     current_provider |-> None,
     current_table    |-> None,
     table_data       |-> EmptyDict,
     search_term      |-> <<>>,
     table_options    |-> <<>>,
     columns          |-> <<>>,
     rows             |-> <<>>,
     title            |-> NoTitle,
     notice           |-> None]

\* self.notify(message, severity=...)
notify(a, severity, about) ==
    [a EXCEPT !.notice = [severity |-> severity, about |-> about]]

\* str(value) if value is not None else ""
CellText(value) ==
    CASE value = "i1" -> <<49>>
      [] value = "s1" -> <<49>>
      [] value = "sx" -> <<120>>
      [] OTHER        -> <<>>

\* sub in s, for two texts.
Contains(sub, s) ==
    \E i \in 0..(Len(s) - Len(sub)) : SubSeq(s, i + 1, i + Len(sub)) = sub

\* rows of _update_display before the filter: one row per cell of the first
\* column, "" where a column is shorter.
AllRows(table_data) ==
    [i \in 1..Len(table_data.values[table_data.columns[1]]) |->
        [k \in DOMAIN table_data.columns |->
            IF i <= Len(table_data.values[table_data.columns[k]])
            THEN CellText(table_data.values[table_data.columns[k]][i])
            ELSE <<>>]]

\* The search filter of _update_display.
FilterRows(search_term, rows) ==
    IF search_term = <<>> THEN rows
    ELSE SelectSeq(rows, LAMBDA row :
                            \E k \in DOMAIN row : Contains(search_term, Lower(row[k])))

\* _update_display from the filtered rows on: the columns, the rows and the
\* title of the data table.
ShowRows(a, rows) ==
    [a EXCEPT !.columns = a.table_data.columns,
              !.rows = rows,
              !.title = [table_name |-> IF a.current_table = None
                                        THEN "No table selected"
                                        ELSE a.current_table,
                         filtered   |-> a.search_term # <<>>,
                         rows       |-> Len(rows)]]

\* TableBrowser._update_display: the data table is cleared, and filled again
\* when there is data; the title is left as it was when there is none.
_update_display(a) ==
    IF a.table_data = EmptyDict
    THEN [a EXCEPT !.columns = <<>>, !.rows = <<>>]
    ELSE ShowRows(a, FilterRows(a.search_term, AllRows(a.table_data)))

\* _load_table_data from the answer of the provider on.
Loaded(a, got) ==
    IF got.status = "ok" THEN [a EXCEPT !.table_data = got.data]
    ELSE IF got.status = "NotImplementedError"
    THEN notify([a EXCEPT !.table_data = EmptyDict], "warning", got.status)
    ELSE notify([a EXCEPT !.table_data = EmptyDict], "error", got.status)

\* TableBrowser._load_table_data
_load_table_data(a, d) ==
    IF a.current_provider = None \/ a.current_table = None THEN a
    ELSE Loaded(a, provider_get_table_data(a.current_provider, d, a.current_table))

\* A variant that leaves the selection and the loaded data as they are.
KeepsSelection(a, d, mode_name) ==
    IF d = Unset \/ mode_name \notin Range(providers) THEN a
    ELSE notify(_update_display(
                    [a EXCEPT !.current_provider = mode_name,
                              !.table_options =
                                  provider_get_available_tables(mode_name, d)]),
                "information", mode_name)

\* TableBrowser._set_mode; get_available_tables of the three providers does
\* not raise.
_set_mode(a, d, mode_name) ==
    IF d = Unset \/ mode_name \notin Range(providers) THEN a
    ELSE notify(_update_display(
                    [a EXCEPT !.current_provider = mode_name,
                              !.table_options =
                                  provider_get_available_tables(mode_name, d),
                              !.current_table = None,
                              !.table_data = EmptyDict]),
                "information", mode_name)

\* The application is created for a file: db is what get_mdb makes of the
\* file, Unset when it cannot be loaded.
BrowserInit ==
    /\ db \in BrowserDatabases \cup {Unset}
    /\ _available_tables = Unset
    /\ call = [op |-> "__init__"]
    /\ ret = [status |-> "ok"]
    /\ written = <<>>
    /\ app = TableBrowser

\* The events of the mounted application are handled.
Handling == app.running /\ app.mounted

\* TableBrowser.on_mount
OnMount ==
    /\ app.running /\ ~app.mounted
    /\ app' = IF db = Unset THEN [app EXCEPT !.running = FALSE]
              ELSE _set_mode([app EXCEPT !.mounted = TRUE], db, "Raw")
    /\ UNCHANGED <<db, _available_tables, call, ret, written>>

\* TableBrowser.on_mode_selected
OnModeSelected(value) ==
    /\ Handling
    /\ app' = IF value = None THEN app ELSE _set_mode(app, db, value)
    /\ UNCHANGED <<db, _available_tables, call, ret, written>>

\* TableBrowser.on_table_selected: the value is an option of the selector,
\* or blank.
OnTableSelected(value) ==
    /\ Handling
    /\ value \in Range(app.table_options) \cup BlankValues
    /\ app' = IF value = None THEN app
              ELSE _update_display(
                       _load_table_data([app EXCEPT !.current_table = value], db))
    /\ UNCHANGED <<db, _available_tables, call, ret, written>>

\* TableBrowser.on_search_changed
OnSearchChanged(value) ==
    /\ Handling
    /\ app' = _update_display([app EXCEPT !.search_term = Lower(value)])
    /\ UNCHANGED <<db, _available_tables, call, ret, written>>

\* TableBrowser.on_clear_pressed
OnClearPressed ==
    /\ Handling
    /\ app' = _update_display([app EXCEPT !.search_term = <<>>])
    /\ UNCHANGED <<db, _available_tables, call, ret, written>>

\* TableBrowser.action_refresh
ActionRefresh ==
    /\ Handling
    /\ app' = IF app.current_table = None THEN app
              ELSE notify(_update_display(_load_table_data(app, db)),
                          "information", "refreshed")
    /\ UNCHANGED <<db, _available_tables, call, ret, written>>

BrowserNext ==
    \/ OnMount
    \/ \E value \in Range(providers) \cup BlankValues : OnModeSelected(value)
    \/ \E value \in PickedTables \cup BlankValues : OnTableSelected(value)
    \/ \E value \in SearchInputs : OnSearchChanged(value)
    \/ OnClearPressed
    \/ ActionRefresh

BrowserSpec == BrowserInit /\ [][BrowserNext]_vars

-----------------------------------------------------------------------------
(* Properties of get_table(T, validate=True) on a table with a schema *)

\* The last call was get_table(T, validate=True) on a catalog table T that
\* has a schema and whose decode returned.
ValidatedCall ==
    /\ call.op = "get_table"
    /\ call.validate
    /\ call.table_name \in DOMAIN db
    /\ call.table_name \in DOMAIN model_map
    /\ ~db[call.table_name].raises

\* The raw decode and the schema of the table of the last call.
RawOfCall == db[call.table_name].table
SchemaOfCall == model_map[call.table_name]

\* The 0-based indices of the rows of raw that the schema rejects.
FailingRows(schema, raw) ==
    IF raw.columns = <<>> THEN {}
    ELSE {i \in 0..(NumRows(raw) - 1) : ~RowValid(schema, RowData(raw, i + 1))}

StrictlyAscending(s) == \A i, j \in DOMAIN s : i < j => s[i] < s[j]

\* C1: get_table(T, validate=True) on a table with a schema returns every
\* raw column, declared by the schema or not, with as many entries as the
\* column has in the (aligned) raw decode, whichever rows pass or fail.
C1_RawColumnsKeepTheirLength ==
    (ValidatedCall /\ Rectangular(RawOfCall)) =>
        /\ ret.status = "ok"
        /\ \A c \in Range(RawOfCall.columns) :
              /\ c \in DOMAIN ret.data.values
              /\ Len(ret.data.values[c]) = Len(RawOfCall.values[c])

ExpectedCell(schema, raw, c, i) ==
    LET row == RowData(raw, i) IN
    IF RowValid(schema, row) /\ c \in Range(schema.fields)
    THEN Coerce(schema.types[c], row[c])
    ELSE row[c]

\* C3: in the validated output row i keeps its position: at index i every
\* column holds row i's raw value when row i failed and row i's normalized
\* value when it passed; no row is dropped, reordered, duplicated or zeroed.
C3_RowsKeepPositionAndValue ==
    (ValidatedCall /\ Rectangular(RawOfCall)) =>
        /\ ret.status = "ok"
        /\ \A c \in Range(RawOfCall.columns) :
              /\ Len(ret.data.values[c]) = NumRows(RawOfCall)
              /\ \A i \in 1..NumRows(RawOfCall) :
                    ret.data.values[c][i] = ExpectedCell(SchemaOfCall, RawOfCall, c, i)

\* C4: the column-name set of get_table(T, validate=True) equals the raw
\* decode's column-name set: validation adds no column and removes none.
C4_ColumnSetIsKept ==
    ValidatedCall =>
        /\ ret.status = "ok"
        /\ Range(ret.data.columns) = Range(RawOfCall.columns)
        /\ DOMAIN ret.data.values = Range(RawOfCall.columns)

\* C4 witness: the schema declares a field that has no raw column, and the
\* only raw column is one the schema does not declare; the table has rows.
C4_Witness ==
    /\ ValidatedCall
    /\ call.table_name = "SensorInterval"
    /\ RawOfCall.columns = <<"Notes">>
    /\ Len(RawOfCall.values["Notes"]) > 0
    /\ ret.status = "ok"
    /\ ret.data.columns = <<"Notes">>

\* C5: a raw column that no schema field references comes out of validation
\* unchanged: the same values in the same order, whichever rows pass or fail.
C5_UndeclaredColumnsUnchanged ==
    (ValidatedCall /\ Rectangular(RawOfCall)) =>
        /\ ret.status = "ok"
        /\ \A c \in Range(RawOfCall.columns) \ Range(SchemaOfCall.fields) :
              ret.data.values[c] = RawOfCall.values[c]

-----------------------------------------------------------------------------
(* Properties of the facade *)

\* C6: for a catalog table without a schema, get_table(T, validate=True)
\* returns what get_table(T, validate=False) returns, the raw decode, and
\* records no validation error.
C6_NoSchemaValidateIsNoOp ==
    (/\ call.op = "get_table"
     /\ call.validate
     /\ call.table_name \in DOMAIN db
     /\ call.table_name \notin DOMAIN model_map) =>
        /\ ret = get_table_data(db, call.table_name, FALSE)
        /\ ~db[call.table_name].raises =>
              /\ ret.status = "ok"
              /\ ret.data = db[call.table_name].table
              /\ ret.errors = <<>>

\* C6 witness: validation was asked for a schema-less table with two columns
\* and rows, and the raw decode came back.
C6_Witness ==
    /\ call.op = "get_table"
    /\ call.validate
    /\ call.table_name = "MSysObjects"
    /\ call.table_name \in DOMAIN db
    /\ ret.status = "ok"
    /\ Len(ret.data.columns) = 2
    /\ Len(ret.data.values[ret.data.columns[1]]) > 0

\* The last call was get_table on a name that is not in the catalog.
MissingTableCall == call.op = "get_table" /\ call.table_name \notin DOMAIN db

\* C7: get_table on a name that is not in the catalog fails with a
\* table-not-found error that names the requested table and lists every name
\* list_tables() returns; no decode is invoked, and the facade's state (the
\* database and the cached name list) is left as it was.
C7_MissingTableFails ==
    /\ [](MissingTableCall =>
            /\ ret.status = "not_found"
            /\ ret.table = call.table_name
            /\ ret.available = CacheAfterList.value
            /\ Range(ret.available) = DOMAIN db
            /\ ret.parsed = <<>>)
    /\ [][MissingTableCall' => UNCHANGED <<db, _available_tables>>]_vars

\* C7 witness: a missing name was asked for with validate=True on a catalog
\* of at least two tables.
C7_Witness ==
    /\ MissingTableCall
    /\ call.validate
    /\ ret.status = "not_found"
    /\ Len(ret.available) >= 2

\* Ascending in Python's str order (by code point), hence without duplicates.
AscendingNames(l) ==
    \A i, j \in DOMAIN l : i < j => SeqLess(Chars(l[i]), Chars(l[j]))

\* C8: list_tables() returns the catalog's names in ascending case-sensitive
\* order without duplicates, and table_exists(name) is true exactly when
\* name is an element of what list_tables() returns.
C8_ListSortedAndExistsIsMembership ==
    /\ call.op = "list_tables" =>
          /\ AscendingNames(ret.value)
          /\ Range(ret.value) = DOMAIN db
    /\ call.op = "table_exists" =>
          (ret.value <=> call.table_name \in Range(CacheAfterList.value))

\* C8 witness: the list holds an upper-case and a lower-case initial, so that
\* the case-sensitive order differs from the case-insensitive one.
C8_Witness ==
    /\ call.op = "list_tables"
    /\ {"MSysObjects", "hero"} \subseteq Range(ret.value)

\* C9: when the decode of a catalog table raises, get_table fails with an
\* error that names the table and carries the cause; it returns no data.
C9_DecodeFailureIsWrapped ==
    (/\ call.op = "get_table"
     /\ call.table_name \in DOMAIN db
     /\ db[call.table_name].raises) =>
        /\ ret.status = "parse_failed"
        /\ ret.table = call.table_name
        /\ ret.cause = db[call.table_name].cause
        /\ "data" \notin DOMAIN ret

\* C9 witness: get_table was called on a table whose decode raises.
C9_Witness ==
    /\ call.op = "get_table"
    /\ call.table_name \in DOMAIN db
    /\ db[call.table_name].raises
    /\ ret.status = "parse_failed"

\* C10: get_table_info(name) for a catalog name never fails: column_count is
\* len(columns), record_count is 0 when columns is empty and the length of
\* the first column otherwise; a decode that raises gives the degraded
\* record (no columns, counts 0, the error attached).  For a name that is not
\* in the catalog it fails with table-not-found.
C10_TableInfo ==
    call.op = "get_table_info" =>
        IF call.table_name \notin DOMAIN db
        THEN ret.status = "not_found" /\ ret.table = call.table_name
        ELSE /\ ret.status = "ok"
             /\ ret.info.name = call.table_name
             /\ ret.info.column_count = Len(ret.info.columns)
             /\ ret.info.columns = <<>> => ret.info.record_count = 0
             /\ IF db[call.table_name].raises
                THEN /\ ret.info.columns = <<>>
                     /\ ret.info.column_count = 0
                     /\ ret.info.record_count = 0
                     /\ "error" \in DOMAIN ret.info
                     /\ ret.info.error.table = call.table_name
                     /\ ret.info.error.cause = db[call.table_name].cause
                ELSE /\ ret.info.columns = RawOfCall.columns
                     /\ "error" \notin DOMAIN ret.info
                     /\ ret.info.columns # <<>> =>
                           ret.info.record_count =
                               Len(RawOfCall.values[RawOfCall.columns[1]])

\* C10 witness: the info of a table whose decode raises is the degraded
\* record.
C10_Witness ==
    /\ call.op = "get_table_info"
    /\ call.table_name \in DOMAIN db
    /\ db[call.table_name].raises
    /\ ret.status = "ok"
    /\ "error" \in DOMAIN ret.info

-----------------------------------------------------------------------------
(* Properties of get_database_summary *)

\* The record count of a decoded table: the length of its first column, 0
\* when it has no column.
RecordCount(t) == IF t.columns = <<>> THEN 0 ELSE Len(t.values[t.columns[1]])

\* The catalog tables whose decode returns.
Decoded == {t \in DOMAIN db : ~db[t].raises}

\* The sum of f over the set S.
RECURSIVE SumOver(_, _)
SumOver(S, f) ==
    IF S = {} THEN 0
    ELSE LET x == CHOOSE y \in S : TRUE IN f[x] + SumOver(S \ {x}, f)

\* C11: get_database_summary() never fails because a table fails to decode:
\* it visits every catalog table, skips each table whose decode raises, and
\* reports total_tables = the number of catalog tables = len(list_tables()),
\* total_records = the sum of the record counts of the tables that decoded,
\* tables_with_data = the number of decoded tables with at least one record,
\* and so tables_with_data <= total_tables.
C11_SummarySkipsFailedTables ==
    call.op = "get_database_summary" =>
        /\ ret.status = "ok"
        /\ ret.visited = CacheAfterList.value
        /\ Range(ret.visited) = DOMAIN db
        /\ ret.summary.total_tables = Cardinality(DOMAIN db)
        /\ ret.summary.total_tables = Len(CacheAfterList.value)
        /\ ret.summary.total_records =
              SumOver(Decoded, [t \in Decoded |-> RecordCount(db[t].table)])
        /\ ret.summary.tables_with_data =
              Cardinality({t \in Decoded : RecordCount(db[t].table) > 0})
        /\ ret.summary.tables_with_data <= ret.summary.total_tables

\* C11 witness: the summary of a catalog with a table whose decode raises, a
\* table with records and a table with a column and no record.
C11_Witness ==
    /\ call.op = "get_database_summary"
    /\ \E t \in DOMAIN db : db[t].raises
    /\ \E t \in Decoded : RecordCount(db[t].table) > 0
    /\ \E t \in Decoded : db[t].table.columns # <<>> /\ RecordCount(db[t].table) = 0
    /\ ret.status = "ok"
    /\ ret.summary.tables_with_data = 1

\* C12: for every catalog, also one where some tables fail to decode,
\* tables_with_models is the number of catalog tables that have a schema and
\* is at most total_tables; model_coverage is tables_with_models /
\* total_tables * 100 to one decimal followed by "%", and exactly "0%" when
\* the catalog is empty.
C12_ModelCoverage ==
    call.op = "get_database_summary" =>
        LET total == Cardinality(DOMAIN db)
            with_schema == Cardinality(DOMAIN db \cap DOMAIN model_map)
            coverage == ret.summary.model_coverage
        IN  /\ ret.summary.tables_with_models = with_schema
            /\ ret.summary.tables_with_models <= ret.summary.total_tables
            /\ IF total = 0 THEN coverage = [whole |-> 0, decimals |-> <<>>]
               ELSE \E tenths \in 0..1000 :
                      /\ coverage = [whole |-> tenths \div 10,
                                     decimals |-> <<tenths % 10>>]
                      /\ LET off == tenths * total - 1000 * with_schema
                         IN  2 * (IF off < 0 THEN -off ELSE off) <= total

-----------------------------------------------------------------------------
(* Properties of select_tables *)

\* The last call was select_tables with a non-empty pattern list.
SelectWithPatterns ==
    /\ call.op = "select_tables"
    /\ ~call.table_patterns.is_none
    /\ call.table_patterns.value # <<>>

\* Table t matches pattern p: it glob-matches p, or equals p ignoring case.
Matches(p, t) ==
    \/ GlobMatch(Chars(p), Chars(t))
    \/ Lower(Chars(p)) = Lower(Chars(t))

\* C13: select_tables with a non-empty pattern list returns exactly the
\* available tables that match at least one pattern, each once, in sorted
\* order ("GeniSys*" over Config, Events, GeniSysObjects, GeniSysPanels gives
\* GeniSysObjects, GeniSysPanels); when no table matches any pattern it
\* raises an error that names the patterns and lists the available tables,
\* and returns nothing.
C13_PatternsSelectTheMatches ==
    SelectWithPatterns =>
        LET patterns == call.table_patterns.value
            matching == {t \in DOMAIN db : \E p \in Range(patterns) : Matches(p, t)}
        IN  /\ IF matching = {}
               THEN /\ ret.status = "no_tables_found"
                    /\ ret.patterns = patterns
                    /\ AscendingNames(ret.available)
                    /\ Range(ret.available) = DOMAIN db
                    /\ "value" \notin DOMAIN ret
               ELSE /\ ret.status = "ok"
                    /\ AscendingNames(ret.value)
                    /\ Range(ret.value) = matching
            /\ (/\ DOMAIN db = {"Config", "Events", "GeniSysObjects", "GeniSysPanels"}
                /\ patterns = <<"GeniSys*">>) =>
                  ret.value = <<"GeniSysObjects", "GeniSysPanels">>

\* C13 witness: two patterns, one of which matches nothing, select from a
\* catalog with tables that match neither.
C13_Witness ==
    /\ SelectWithPatterns
    /\ DOMAIN db = {"Config", "Events", "GeniSysObjects", "GeniSysPanels"}
    /\ call.table_patterns.value = <<"NoMatch*", "GeniSys*">>
    /\ ret.status = "ok"
    /\ ret.value = <<"GeniSysObjects", "GeniSysPanels">>

\* C14: for every catalog (also an empty one) and every pattern argument
\* (None, an empty list or any list of patterns) select_tables either
\* raises or returns a non-empty, duplicate-free, sorted list of catalog
\* table names.
C14_SelectionIsNeverEmpty ==
    (call.op = "select_tables" /\ ret.status = "ok") =>
        /\ ret.value # <<>>
        /\ AscendingNames(ret.value)
        /\ Range(ret.value) \subseteq DOMAIN db

\* C15: a pattern P selects every table that glob-matches P case-sensitively
\* and, only when P glob-matches no table, the tables whose name equals P
\* ignoring case: a table that differs from P only in letter case is not
\* selected when P glob-matches some table, and a wildcard pattern never
\* matches a name that differs in case.
C15_CaseInsensitiveOnlyAsFallback ==
    SelectWithPatterns =>
        LET available == get_available_tables(db)
            Selects(p) == IF fnmatch_filter(available, p) # {}
                          THEN fnmatch_filter(available, p)
                          ELSE LowerEqual(available, p)
            expected == UNION {Selects(p) : p \in Range(call.table_patterns.value)}
        IN  IF expected = {} THEN ret.status = "no_tables_found"
            ELSE ret.status = "ok" /\ Range(ret.value) = expected

-----------------------------------------------------------------------------
(* Properties of export *)

\* The exporter key that the format of the last export names ignoring
\* case, as a set: empty when the format is not supported.
KeyOfCall == {k \in {"json", "yaml", "csv"} : Chars(k) = Lower(Chars(call.format))}

\* The last call was an export that returned its result.
ExportDone == call.op = "export" /\ ret.status = "ok"

\* The tables the last export selected.
SelectedOfCall == select_tables(get_available_tables(db), call.tables)

\* The entry e exported for table t agrees with the table's decode.
EntryAgrees(t, e) ==
    /\ Len(e.records) = e.record_count
    /\ e.record_count = RecordCount(db[t].table)
    /\ e.columns = db[t].table.columns
    /\ \A i \in DOMAIN e.records : DOMAIN e.records[i] = Range(e.columns)

\* C16: JSON export round trip: for every table (also one with no columns,
\* no rows or columns of unequal length) the exported entry has len(records)
\* = record_count = the length of the table's first column, and the key set
\* of every record is the exported columns list, which is the table's
\* column names.
C16_JsonRoundTrip ==
    (ExportDone /\ KeyOfCall = {"json"}) =>
        IF call.separate_files
        THEN \A i \in DOMAIN written :
                EntryAgrees(written[i].content.table_name, written[i].content)
        ELSE \A t \in DOMAIN written[1].content.tables :
                EntryAgrees(t, written[1].content.tables[t])

\* The last call was an export to one JSON or YAML file that returned.
SingleFileDone ==
    /\ ExportDone
    /\ ~call.separate_files
    /\ KeyOfCall \subseteq {"json", "yaml"}

\* C17: in a multi-table single-file JSON or YAML export the tables mapping
\* has exactly one entry per selected table name, table_count is the number
\* of selected tables and total_records is the sum of the record_count of
\* all entries.
C17_SingleFileTotals ==
    SingleFileDone =>
        LET doc == written[1].content IN
        /\ Len(written) = 1
        /\ SelectedOfCall.status = "ok"
        /\ DOMAIN doc.tables = Range(SelectedOfCall.value)
        /\ doc.table_count = Len(SelectedOfCall.value)
        /\ doc.table_count = Cardinality(DOMAIN doc.tables)
        /\ doc.total_records =
              SumOver(DOMAIN doc.tables,
                      [t \in DOMAIN doc.tables |-> doc.tables[t].record_count])

\* C17 witness: a YAML file with three tables, two of them with records.
C17_Witness ==
    /\ SingleFileDone
    /\ KeyOfCall = {"yaml"}
    /\ written[1].content.table_count = 3
    /\ Cardinality({t \in DOMAIN written[1].content.tables :
                      written[1].content.tables[t].record_count > 0}) = 2

\* The paths of the written files, in the order they were written.
WrittenPaths == [i \in DOMAIN written |-> written[i].path]

\* C18: the result of a successful export_tables call describes what was
\* written: tables_exported = len(table_names) = the number of selected
\* tables; in single-file mode output_files is the requested path and that
\* file was written; in separate-files mode one file per selected table was
\* written, named <base>_<tableName><ext> next to the requested path,
\* output_files lists exactly those files in selection order, and the
\* requested path itself was not written.
C18_ResultDescribesTheFiles ==
    ExportDone =>
        LET selected == SelectedOfCall.value
            result == ret.result
            extension == get_file_extension(exporters[CHOOSE k \in KeyOfCall : TRUE])
        IN  /\ result.tables_exported = Len(result.table_names)
            /\ result.table_names = selected
            /\ IF ~call.separate_files
               THEN /\ result.output_files = <<call.output_path>>
                    /\ WrittenPaths = <<call.output_path>>
               ELSE /\ Len(result.output_files) = Len(selected)
                    /\ WrittenPaths = result.output_files
                    /\ \A i \in DOMAIN selected :
                          result.output_files[i] =
                              [parent |-> call.output_path.parent,
                               stem   |-> call.output_path.stem \o <<"_", selected[i]>>,
                               suffix |-> extension]
                    /\ \A i \in DOMAIN written : written[i].path # call.output_path

\* C18 witness: three tables exported to three separate CSV files.
C18_Witness ==
    /\ ExportDone
    /\ call.separate_files
    /\ KeyOfCall = {"csv"}
    /\ Len(written) = 3
    /\ ret.result.tables_exported = 3

\* The export of the last call with the format name in lower case.
LowerCaseExport ==
    export_tables(db, call.output_path, CHOOSE k \in KeyOfCall : TRUE, call.tables,
                  ~call.separate_files)

\* Format names are matched ignoring case: the export does what it does with
\* the lower-case name (only the result's format echoes the name as given).
FormatCaseIsIgnored ==
    (call.op = "export" /\ KeyOfCall # {}) =>
        /\ written = LowerCaseExport.written
        /\ ret.status = LowerCaseExport.outcome.status
        /\ IF ret.status = "ok"
           THEN /\ ret.result.format = call.format
                /\ [ret.result EXCEPT !.format = CHOOSE k \in KeyOfCall : TRUE]
                      = LowerCaseExport.outcome.result
           ELSE ret = LowerCaseExport.outcome

\* The failure of the last call is the unsupported-format error: it carries
\* the format name as given and lists the valid formats.
UnsupportedFormatReported ==
    /\ ret.status = "export_failed"
    /\ ret.cause.status = "unsupported_format"
    /\ ret.cause.format = call.format
    /\ ret.cause.available = <<"json", "yaml", "csv">>

\* C19 as stated: an export with a format name outside the supported set
\* fails with an unsupported-format error that carries the format name and
\* lists the valid formats, and writes no file; format names are matched
\* ignoring case.
C19_UnsupportedFormatAlwaysReported ==
    /\ (call.op = "export" /\ KeyOfCall = {}) =>
          UnsupportedFormatReported /\ written = <<>>
    /\ FormatCaseIsIgnored

\* C19: an export with a format name outside the supported set fails and
\* writes no file; the failure is the unsupported-format error, carrying the
\* format name and listing the valid formats, when the table selection
\* succeeded, and the selection's own error when it did not (tables are
\* selected before the exporter is looked up); format names are matched
\* ignoring case.
C19_UnsupportedFormatFails ==
    /\ (call.op = "export" /\ KeyOfCall = {}) =>
          /\ ret.status = "export_failed"
          /\ written = <<>>
          /\ IF SelectedOfCall.status = "ok"
             THEN UnsupportedFormatReported
             ELSE ret.cause = SelectedOfCall
    /\ FormatCaseIsIgnored

\* C19 witness: an export of selected tables to "xml" failed with the
\* unsupported-format error.
C19_Witness ==
    /\ call.op = "export"
    /\ call.format = "xml"
    /\ SelectedOfCall.status = "ok"
    /\ UnsupportedFormatReported
    /\ written = <<>>

\* The exporter of the last export raised PermissionError from mkdir or open.
IOFailureInExport ==
    /\ call.op = "export"
    /\ KeyOfCall # {}
    /\ SelectedOfCall.status = "ok"
    /\ LET run == export_multiple_tables(db, exporters[CHOOSE k \in KeyOfCall : TRUE],
                                         SelectedOfCall.value, call.output_path,
                                         ~call.separate_files)
       IN  run.raised /\ run.error.status = "PermissionError"

\* C20: when the output directory or file of an export cannot be created,
\* the export call fails with the I/O failure itself (PermissionError or
\* OSError), not with an error of another kind, and nothing is written again.
C20_IOFailureIsPropagated ==
    IOFailureInExport =>
        /\ ret.status = "PermissionError"
        /\ written = <<>>

\* The selected tables of the last export whose decode returns.
DecodableSelected ==
    {t \in Range(SelectedOfCall.value) :
        SimpleDataProvider_get_table_data(db, t).status = "ok"}

\* Table t is in what the last JSON or YAML export wrote.
Exported(t) ==
    \E i \in DOMAIN written :
        IF call.separate_files
        THEN written[i].content.table_name = t
        ELSE t \in DOMAIN written[i].content.tables

\* The last call was a JSON or YAML export of several tables to a writable
\* place, and the decode of one of them raises.
ExportWithFailingTable ==
    /\ call.op = "export"
    /\ KeyOfCall # {} /\ KeyOfCall \subseteq {"json", "yaml"}
    /\ call.output_path.parent \notin MkdirDenied \cup OpenDenied
    /\ SelectedOfCall.status = "ok"
    /\ Len(SelectedOfCall.value) > 1
    /\ DecodableSelected # Range(SelectedOfCall.value)

\* C21: multi-table export is best-effort: when the decode of one of several
\* selected tables fails, the export is not aborted and every other selected
\* table is still exported.
C21_MultiTableExportIsBestEffort ==
    ExportWithFailingTable => \A t \in DecodableSelected : Exported(t)

-----------------------------------------------------------------------------
(* Properties of the facade across calls *)

\* The last call was get_table(T, validate=False) on a table that decodes.
RawReadCall ==
    /\ call.op = "get_table"
    /\ ~call.validate
    /\ call.table_name \in DOMAIN db
    /\ ~db[call.table_name].raises

ListingOps == {"list_tables", "table_exists", "get_table_info", "get_database_summary"}

\* C23: the table-name list is computed at most once per MerlinDB instance,
\* on the first access through list_tables(), and never invalidated: every
\* list_tables() call returns a list equal to the cached one, which holds
\* the catalog's names, and a caller that changes a list it was given
\* changes neither the cache, nor what later list_tables() calls return, nor
\* what table_exists() answers.
C23_NameListIsCachedOnceAndCopied ==
    /\ [](call.op = "list_tables" =>
            /\ ~_available_tables.is_none
            /\ ret.value = _available_tables.value)
    /\ [](~_available_tables.is_none =>
            _available_tables.value = get_available_tables(db))
    /\ [](call.op = "table_exists" => (ret.value <=> call.table_name \in DOMAIN db))
    /\ [][/\ ~_available_tables.is_none => _available_tables' = _available_tables
          /\ (_available_tables.is_none /\ ~_available_tables'.is_none) =>
                call'.op \in ListingOps]_vars

\* C23 witness: a caller appended a name to the list it was given and the
\* cached list does not hold that name.
C23_Witness ==
    /\ call.op = "change_returned_list"
    /\ NoSuchTable \in Range(ret.value)
    /\ Len(ret.value) >= 3
    /\ ~_available_tables.is_none
    /\ NoSuchTable \notin Range(_available_tables.value)

\* C24: leaving a `with MerlinDB(...)` scope releases the database handle
\* (self._db holds no handle any more) on every exit path, the exception of
\* a failed call inside the scope included.
C24_ScopeExitReleasesHandle ==
    call.op = "__exit__" => db = Unset

-----------------------------------------------------------------------------
(* Properties of the providers *)

\* The names the provider of a mode exposes.
ExposedNames(mode) ==
    CASE mode = "Raw"      -> DOMAIN db
      [] mode = "Dynalite" -> _DYNALITE_TABLES
      [] mode = "Device"   -> _DEVICE_TABLES

\* C25: the Dynalite and Device providers keep the provider contract:
\* get_table_data(name) fails with a not-implemented error for every name of
\* get_available_tables() and with a not-found error listing the available
\* names for every other name, and never returns data; for every provider
\* supports_table(name) is true exactly when name is in
\* get_available_tables(), and get_available_tables() is sorted.
C25_UnimplementedProvidersKeepTheContract ==
    /\ (call.op = "get_table_data" /\ call.mode \in {"Dynalite", "Device"}) =>
          /\ "data" \notin DOMAIN ret
          /\ ret.table = call.table_name
          /\ IF call.table_name \in ExposedNames(call.mode)
             THEN ret.status = "NotImplementedError"
             ELSE /\ ret.status = "not_found"
                  /\ Range(ret.available) = ExposedNames(call.mode)
                  /\ AscendingNames(ret.available)
    /\ call.op = "supports_table" =>
          (ret.value <=> call.table_name \in ExposedNames(call.mode))
    /\ call.op = "get_available_tables" =>
          /\ AscendingNames(ret.value)
          /\ Range(ret.value) = ExposedNames(call.mode)

\* C25 witness: the Device provider was asked for one of its tables and
\* answered that it is not implemented.
C25_Witness ==
    /\ call.op = "get_table_data"
    /\ call.mode = "Device"
    /\ call.table_name = "lights"
    /\ ret.status = "NotImplementedError"

-----------------------------------------------------------------------------
(* Properties of validation on columns of unequal length *)

\* rowCount of the raw decode of the last call: the length of its first
\* column, 0 without columns.
RowCountOfCall ==
    IF RawOfCall.columns = <<>> THEN 0
    ELSE Len(RawOfCall.values[RawOfCall.columns[1]])

\* The columns of the validated output that the schema declares.
DeclaredOutputColumns == Range(ret.data.columns) \cap Range(SchemaOfCall.fields)

\* C26: validation handles columns of unequal length defensively: rowCount
\* is the length of the first raw column (0 for a table with no columns);
\* the call does not fail; a column shorter than rowCount reads as null past
\* its end; entries of a column beyond rowCount are ignored; so every
\* schema-declared column of the validated output has exactly rowCount
\* entries.
C26_RaggedColumnsAreHandledDefensively ==
    ValidatedCall =>
        /\ ret.status = "ok"
        /\ ret.visited = [i \in 1..RowCountOfCall |-> i - 1]
        /\ \A c \in DeclaredOutputColumns :
              /\ Len(ret.data.values[c]) = RowCountOfCall
              /\ \A i \in 1..RowCountOfCall :
                    i > Len(RawOfCall.values[c]) => ret.data.values[c][i] = None

\* C26 witness: the declared column is shorter than the first column, and
\* its validated output is filled up with a null.
C26_Witness ==
    /\ ValidatedCall
    /\ RawOfCall.columns = <<"Notes", "SensorInterval">>
    /\ Len(RawOfCall.values["Notes"]) = 2
    /\ Len(RawOfCall.values["SensorInterval"]) = 1
    /\ ret.status = "ok"
    /\ Len(ret.data.values["SensorInterval"]) = 2
    /\ ret.data.values["SensorInterval"][2] = None

-----------------------------------------------------------------------------
(* Properties of the data an export writes *)

\* The entry that a JSON or YAML file holds for the raw decode of table t.
RawEntry(t) == TableEntry(db[t].table)

\* C27: schema validation is applied to exported data exactly when it is
\* requested: an export through the API's export methods, which take no
\* validate option, writes the raw decoded values of each table.
C27_ExportWritesRawUnlessAsked ==
    (SingleFileDone /\ Len(written) = 1) =>
        \A t \in DOMAIN written[1].content.tables :
            written[1].content.tables[t] = RawEntry(t)

\* The last call was an export to one CSV file that returned.
CombinedCsvDone ==
    /\ ExportDone
    /\ ~call.separate_files
    /\ KeyOfCall = {"csv"}

\* The frame f is a separator row; it holds data rows of a table.
IsSeparator(f) ==
    /\ Len(f.rows) = 1
    /\ "table_name" \in DOMAIN f.rows[1]
    /\ f.rows[1]["table_name"] = "---"
HoldsDataRows(f) == f.rows # <<>> /\ ~IsSeparator(f)

\* C28: in a combined multi-table CSV export the "---" separator rows stand
\* between tables and not after the last one: each separator row is
\* immediately preceded by data rows of one table and followed by data rows
\* of a later table, and the output neither begins nor ends with a separator
\* row.
C28_SeparatorsStandBetweenTables ==
    CombinedCsvDone =>
        LET frames == written[1].content.frames IN
        \A i \in DOMAIN frames :
            IsSeparator(frames[i]) =>
                /\ i > 1 /\ HoldsDataRows(frames[i - 1])
                /\ i < Len(frames) /\ HoldsDataRows(frames[i + 1])

\* The last call asked an exporter for one file of several tables.
SingleFileCall ==
    /\ call.op = "export_multiple_tables"
    /\ call.single_file

\* The names of that call the provider does not list, and the positions of
\* the listed ones whose decode raises.
UnavailableOfCall ==
    {n \in Range(call.table_names) : n \notin Range(get_available_tables(db))}
FailingOfCall ==
    {i \in DOMAIN call.table_names :
        /\ call.table_names[i] \notin UnavailableOfCall
        /\ SimpleDataProvider_get_table_data(db, call.table_names[i]).status # "ok"}

\* C29: a single-file export to JSON, YAML or CSV is all-or-nothing: every
\* selected name is checked and every selected table is decoded before the
\* output file is opened, so when a name is unavailable or a decode fails the
\* call fails and no file is created or modified.
C29_SingleFileExportIsAllOrNothing ==
    (SingleFileCall /\ (UnavailableOfCall # {} \/ FailingOfCall # {})) =>
        /\ ret.status # "ok"
        /\ written = <<>>

\* A single file was asked for, to a writable place, of a table with rows
\* followed by a table whose decode raises.
C29_Witness ==
    /\ SingleFileCall
    /\ call.output_path.parent \notin MkdirDenied \cup OpenDenied
    /\ UnavailableOfCall = {}
    /\ FailingOfCall = {2}
    /\ \E got \in {SimpleDataProvider_get_table_data(db, call.table_names[1])} :
          got.data.columns # <<>> /\ NumRows(got.data) > 0
    /\ ret.status \notin {"ok", "PermissionError"}

-----------------------------------------------------------------------------
(* Properties of the terminal browser *)

\* What the current provider answers for the current table.
CurrentAnswer(a) == provider_get_table_data(a.current_provider, db, a.current_table)

\* table_data of the application a is empty, or it is the data the current
\* provider returns for current_table.
ShowsNothingOrCurrent(a) ==
    \/ a.table_data = EmptyDict
    \/ /\ a.current_provider # None
       /\ a.current_table # None
       /\ CurrentAnswer(a).status = "ok"
       /\ CurrentAnswer(a).data = a.table_data

\* A table is selected in the application a and the current provider raises
\* for it.
LoadFails(a) ==
    /\ a.current_provider # None
    /\ a.current_table # None
    /\ CurrentAnswer(a).status # "ok"

\* C30: in the terminal browser, after any sequence of mode selections,
\* table selections, refreshes and search edits, table_data is empty or the
\* data the current provider returned for current_table; a switch of mode
\* resets current_table to none and table_data to empty, and a failure of the
\* provider while a table is loaded ("not implemented" included) leaves
\* table_data empty, not stale.
C30_BrowserShowsNothingStale ==
    /\ [](Handling => ShowsNothingOrCurrent(app))
    /\ [][(Handling /\ app'.current_provider # app.current_provider) =>
            /\ app'.current_table = None
            /\ app'.table_data = EmptyDict]_vars
    /\ []((Handling /\ LoadFails(app)) => app.table_data = EmptyDict)

\* Rows of a table were shown (the title still tells of them), the mode is
\* now one whose provider is not implemented, a table of it is selected, and
\* the load ended with the warning and no data.
C30_Witness ==
    /\ Handling
    /\ app.title.rows > 0
    /\ app.current_provider = "Dynalite"
    /\ app.current_table = "areas"
    /\ app.notice = [severity |-> "warning", about |-> "NotImplementedError"]
    /\ app.table_data = EmptyDict
    /\ app.rows = <<>>

=============================================================================
